---------------------------- MODULE Spec2Model ----------------------------
(***************************************************************************)
(* Model of the two command line tools of ONNX-Metadata:                   *)
(*   onnx-model-validator.py  compares the input/output layers of two      *)
(*                            models and writes a JSON report;             *)
(*   set_onnx_metadata.py     validates a metadata record and writes it    *)
(*                            into a model's metadata_props.               *)
(* Python strings are TLA+ strings, Python lists are sequences, a dict is  *)
(* a sequence of items (insertion order) or a function over its keys.      *)
(***************************************************************************)
EXTENDS Integers, Sequences, FiniteSets, TLC

VARIABLES
    pc,             \* position of the running tool
    exit_code,      \* process exit status once pc = "exit"
    stderr,         \* what ended the run: an _error message or an uncaught exception
    \* ---- onnx-model-validator.py
    args,           \* parsed command line of the diff tool
    ort,            \* what onnxruntime reports for model_a and model_b
    bound,          \* the locals of main() that have been assigned
    a_layers, b_layers,
    input_status, output_status,
    REPORT,         \* the global report accumulator
    report_file,    \* the report written to disk (NoFile until written)
    call, ret,      \* a direct call diff_models(a, b, group) and its result
    \* ---- set_onnx_metadata.py
    cli,            \* parsed command line of the metadata tool
    data,           \* the JSON configuration document
    template_file,  \* the configuration template written by --make_config
    model,          \* the loaded ModelProto's metadata_props
    disk,           \* the metadata_props of the .onnx files on disk, by path
    disk0           \* the files as they were when the run started

vars == <<pc, exit_code, stderr, args, ort, bound, a_layers, b_layers,
          input_status, output_status, REPORT, report_file, call, ret,
          cli, data, template_file, model, disk, disk0>>

diffVars == <<args, ort, bound, a_layers, b_layers, input_status,
              output_status, REPORT, report_file, call, ret>>
metaVars == <<cli, data, template_file, model, disk, disk0>>

(***************************************************************************)
(* Bounds                                                                  *)
(***************************************************************************)
\* longest list of layers a model reports per group
MaxLayers == 2
\* how many keys of the valid record are changed, removed or added
MaxChanges == 2
\* how many pieces a composed license text has
MaxParts == 3

(***************************************************************************)
(* Python helpers on strings and lists                                     *)
(***************************************************************************)
Range(s) == {s[i] : i \in DOMAIN s}

\* x in lst (list membership by ==)
In(x, lst) == \E i \in DOMAIN lst : lst[i] = x

\* str.endswith
EndsWith(s, suffix) ==
    /\ Len(s) >= Len(suffix)
    /\ SubSeq(s, Len(s) - Len(suffix) + 1, Len(s)) = suffix

\* str.find: lowest 0-based index where sub occurs in s, or -1
Find(s, sub) ==
    LET hits == {i \in 0..(Len(s) - Len(sub)) : SubSeq(s, i + 1, i + Len(sub)) = sub}
    IN  IF hits = {} THEN -1 ELSE CHOOSE i \in hits : \A j \in hits : i <= j

\* sub in s (substring containment)
Contains(s, sub) == Find(s, sub) >= 0

\* What the process wrote to stderr when it ended: the kind of _error message
\* (or the uncaught exception) and the key it names.
Msg(kind, key) == [kind |-> kind, key |-> key]

NoMsg == Msg("", "")

(***************************************************************************)
(* onnx-model-validator.py                                                 *)
(***************************************************************************)
EXIT_STATUS_SUCCESS == 0
EXIT_STATUS_ERROR == 1

Groups == {"Inputs", "Outputs"}

\* The layers onnxruntime can report: a name and a shape (dimensions as text,
\* a symbolic axis by its name).
LayerPool ==
    { [name |-> "x", shape |-> <<"1", "3">>],
      [name |-> "y", shape |-> <<"1">>] }

SeqsUpTo(S, n) == UNION {[1..k -> S] : k \in 0..n}

Layers == SeqsUpTo(LayerPool, MaxLayers)

Models == [inputs : Layers, outputs : Layers]

NoModel == [inputs |-> <<>>, outputs |-> <<>>]

\* Any list of descriptors, whatever their ids: the arguments diff_models accepts.
Descriptors ==
    { [id |-> i, name |-> l.name, shape |-> l.shape] :
        i \in 0..(MaxLayers - 1), l \in LayerPool }

DescriptorLists == SeqsUpTo(Descriptors, MaxLayers)

\* parse_layers: one dict per layer, numbered from 0 in enumeration order
parse_layers(layers) ==
    [i \in 1..Len(layers) |->
        [id |-> i - 1, name |-> layers[i].name, shape |-> layers[i].shape]]

get_in_out_layers(m) ==
    [inputs |-> parse_layers(m.inputs), outputs |-> parse_layers(m.outputs)]

\* [item for item in a if item not in b] with the test "item not in b" mutated
\* to compare names only
minus_by_name(a, b) ==
    SelectSeq(a, LAMBDA item : ~ \E j \in DOMAIN b : b[j].name = item.name)

\* [item for item in a if item not in b]
minus(a, b) == SelectSeq(a, LAMBDA item : ~ In(item, b))

\* a == b mutated to a comparison of the two lists as sets
lists_equal_as_sets(a, b) == Range(a) = Range(b)

\* a == b on two lists: same length, equal element by element
lists_equal(a, b) == a = b

\* What diff_models(a, b, group) computes: the returned status, the flag it
\* stores under REPORT['models']['compatability'][group], and the REPORT[group]
\* section it writes when the lists differ.
diff_models(a, b) ==
    LET a_minus_b == minus(a, b)
        b_minus_a == minus(b, a)
        sym_diff  == a_minus_b \o b_minus_a
    IN  IF lists_equal(a, b)
        THEN [status |-> 0, compat |-> TRUE, section |-> <<>>]
        ELSE [status |-> 1, compat |-> FALSE,
              section |-> << [a_layers |-> a_minus_b,
                              b_layers |-> b_minus_a,
                              symantic_difference |-> sym_diff] >>]

\* The effect of diff_models on the global REPORT.  A group's section is kept
\* as a list of zero or one entries (absent or present key REPORT[group]).
report_after(rep, group, r) ==
    [rep EXCEPT
        !.compatability[group] = <<r.compat>>,
        !.sections[group] = IF r.section = <<>> THEN @ ELSE r.section]

\* REPORT before main() touches it: every key absent.  An absent key is the
\* empty list, a present one a one-element list.
EmptyReport ==
    [models |-> <<>>,
     compatability |-> [g \in Groups |-> <<>>],
     sections |-> [g \in Groups |-> <<>>],
     exit_status |-> <<>>]

\* REPORT after lines 175-178 of main()
StartedReport == [EmptyReport EXCEPT !.models = <<"model_a", "model_b">>]

NoFile == [path |-> "", content |-> EmptyReport]

OutputUris == {"", "report", "report.json"}

LayerTypes == {"inputs", "outputs", "both"}

\* str.upper on the layer_type choices
upper_layer_type(t) ==
    CASE t = "inputs" -> "INPUTS"
      [] t = "outputs" -> "OUTPUTS"
      [] t = "both" -> "BOTH"

\* ---- main(), lines 163-184: arguments, file checks, report header, introspection
DiffSetup ==
    /\ pc = "diff_setup"
    /\ LET b1 == IF args.a_is_file THEN {"model_a"} ELSE {}
           b2 == IF args.b_is_file THEN {"model_b"} ELSE {}
           uri == IF args.output_uri /= "" /\ ~ EndsWith(args.output_uri, ".json")
                  THEN args.output_uri \o ".json"
                  ELSE args.output_uri
       IN  /\ bound' = b1 \cup b2
           /\ args' = [args EXCEPT !.output_uri = uri]
           /\ IF "model_a" \in b1 /\ "model_b" \in b2
              THEN /\ REPORT' = StartedReport
                   /\ a_layers' = get_in_out_layers(ort.a)
                   /\ b_layers' = get_in_out_layers(ort.b)
                   /\ pc' = "diff_inputs"
                   /\ UNCHANGED <<exit_code, stderr>>
              ELSE \* os.path.abspath(model_a) reads a local never assigned
                   /\ REPORT' = [EmptyReport EXCEPT !.models =
                                    IF "model_a" \in b1 THEN <<"model_a">> ELSE <<>>]
                   /\ pc' = "exit"
                   /\ exit_code' = 1
                   /\ stderr' = Msg("UnboundLocalError", "")
                   /\ UNCHANGED <<a_layers, b_layers>>
    /\ UNCHANGED <<ort, input_status, output_status, report_file, call, ret>>
    /\ UNCHANGED metaVars

\* ---- main(), lines 186-187
DiffInputs ==
    /\ pc = "diff_inputs"
    /\ IF upper_layer_type(args.layer_type) \in {"BOTH", "INPUTS"}
       THEN LET r == diff_models(a_layers.inputs, b_layers.inputs)
            IN  /\ REPORT' = report_after(REPORT, "Inputs", r)
                /\ input_status' = r.status
                /\ bound' = bound \cup {"input_status"}
       ELSE UNCHANGED <<REPORT, input_status, bound>>
    /\ pc' = "diff_outputs"
    /\ UNCHANGED <<exit_code, stderr, args, ort, a_layers, b_layers,
                   output_status, report_file, call, ret>>
    /\ UNCHANGED metaVars

\* ---- main(), lines 189-190
DiffOutputs ==
    /\ pc = "diff_outputs"
    /\ IF upper_layer_type(args.layer_type) \in {"BOTH", "OUTPUTS"}
       THEN LET r == diff_models(a_layers.outputs, b_layers.outputs)
            IN  /\ REPORT' = report_after(REPORT, "Outputs", r)
                /\ output_status' = r.status
                /\ bound' = bound \cup {"output_status"}
       ELSE UNCHANGED <<REPORT, output_status, bound>>
    /\ pc' = "diff_status"
    /\ UNCHANGED <<exit_code, stderr, args, ort, a_layers, b_layers,
                   input_status, report_file, call, ret>>
    /\ UNCHANGED metaVars

\* ---- main(), lines 192-200: overall status, report written to output_uri
DiffReport ==
    /\ pc = "diff_status"
    /\ IF {"input_status", "output_status"} \subseteq bound
       THEN LET all_status == input_status + output_status
                status == IF all_status = EXIT_STATUS_SUCCESS
                          THEN EXIT_STATUS_SUCCESS ELSE EXIT_STATUS_ERROR
                rep == [REPORT EXCEPT !.exit_status = <<status>>]
            IN  /\ REPORT' = rep
                /\ bound' = bound \cup {"status"}
                /\ IF args.output_uri = ""
                   THEN \* open(None, 'w')
                        /\ pc' = "exit"
                        /\ exit_code' = 1
                        /\ stderr' = Msg("TypeError", "")
                        /\ UNCHANGED report_file
                   ELSE /\ report_file' = [path |-> args.output_uri, content |-> rep]
                        /\ pc' = "diff_exit"
                        /\ UNCHANGED <<exit_code, stderr>>
       ELSE \* input_status + output_status reads a local never assigned
            /\ pc' = "exit"
            /\ exit_code' = 1
            /\ stderr' = Msg("UnboundLocalError", "")
            /\ UNCHANGED <<REPORT, bound, report_file>>
    /\ UNCHANGED <<args, ort, a_layers, b_layers, input_status, output_status,
                   call, ret>>
    /\ UNCHANGED metaVars

\* ---- main(), line 202: sys.exit(status)
DiffExit ==
    /\ pc = "diff_exit"
    /\ pc' = "exit"
    /\ exit_code' = REPORT.exit_status[1]
    /\ UNCHANGED <<stderr>>
    /\ UNCHANGED diffVars
    /\ UNCHANGED metaVars

\* ---- diff_models called directly on two lists of descriptors
CallDiffModels ==
    /\ pc = "call"
    /\ LET r == diff_models(call.a, call.b)
       IN  /\ REPORT' = report_after(REPORT, call.group, r)
           /\ ret' = <<r.status>>
    /\ pc' = "returned"
    /\ UNCHANGED <<exit_code, stderr, args, ort, bound, a_layers, b_layers,
                   input_status, output_status, report_file, call>>
    /\ UNCHANGED metaVars

(***************************************************************************)
(* set_onnx_metadata.py                                                    *)
(***************************************************************************)

\* ---- Python values a JSON document can hold, tagged with their type.
PyStr(x)  == [t |-> "str",  s |-> x,  n |-> 0, l |-> <<>>]
PyInt(x)  == [t |-> "int",  s |-> "", n |-> x, l |-> <<>>]
PyBool(x) == [t |-> "bool", s |-> "", n |-> IF x THEN 1 ELSE 0, l |-> <<>>]
PyList(x) == [t |-> "list", s |-> "", n |-> 0, l |-> x]
PyNone    == [t |-> "none", s |-> "", n |-> 0, l |-> <<>>]

\* isinstance(v, str), isinstance(v, list)
is_str(v)  == v.t = "str"
is_list(v) == v.t = "list"

\* isinstance(v, int): bool is a subclass of int
is_int(v) == v.t \in {"int", "bool"}

\* ---- the METADATA template: the keys in declaration order, and each key's
\* placeholder text
METADATA_KEYS ==
    << "model_type", "model_architecture", "number_of_classes",
       "number_of_bands", "number_of_epochs", "class_names", "vendor_name",
       "model_author", "model_license", "model_version", "model_date" >>

METADATA(key) ==
    CASE key = "model_type" ->
            "String: Object Detection, Pixel Segmentation, etc."
      [] key = "model_architecture" ->
            "String: Detectron 2, SAM, Custom, etc."
      [] key = "number_of_classes" ->
            "Integer: Number of trained classes, e.g., 1, 2, 3, etc."
      [] key = "number_of_bands" ->
            "Integer: Number of bands the model trained with, e.g., 3"
      [] key = "number_of_epochs" ->
            "Integer: How many epochs did the model train, e.g., 100"
      [] key = "class_names" ->
            "List[str]: Class ID ordered class names, e.g., [person, car, ...]"
      [] key = "vendor_name" ->
            "String: Company distributing the model, e.g. NV5"
      [] key = "model_author" ->
            "String: Original author of the model architecture, e.g., clees"
      [] key = "model_license" ->
            "String: License for the model, e.g., Apache 2.0"
      [] key = "model_version" ->
            "Integer: Nth version of the model distributed to NV5, e.g., 1, 2, etc."
      [] key = "model_date" ->
            "String: Date for which the model is ready, e.g., 2025-01-01"

\* TYPES: the Python type each key must be an instance of
TYPES(key) ==
    CASE key \in {"model_type", "model_architecture", "vendor_name",
                  "model_author", "model_license", "model_date"} -> "str"
      [] key \in {"number_of_classes", "number_of_bands", "number_of_epochs",
                  "model_version"} -> "int"
      [] key = "class_names" -> "list"

NON_PERMISIVE_LICENSES ==
    << "GPL", "AGPL", "LGPL",
       "CC BY-NC", "CC BY-NC-SA",
       "CC BY-ND", "CC BY-NC-ND",
       "GNU", "APSL", "EPL", "MPL" >>

\* isinstance(value, TYPES[key])
isinstance(v, type) ==
    CASE type = "str" -> is_str(v)
      [] type = "int" -> is_int(v)
      [] type = "list" -> is_list(v)

\* ---- str.upper, character by character
upper_char(c) ==
    CASE c = "a" -> "A" [] c = "b" -> "B" [] c = "c" -> "C" [] c = "d" -> "D"
      [] c = "e" -> "E" [] c = "f" -> "F" [] c = "g" -> "G" [] c = "h" -> "H"
      [] c = "i" -> "I" [] c = "j" -> "J" [] c = "k" -> "K" [] c = "l" -> "L"
      [] c = "m" -> "M" [] c = "n" -> "N" [] c = "o" -> "O" [] c = "p" -> "P"
      [] c = "q" -> "Q" [] c = "r" -> "R" [] c = "s" -> "S" [] c = "t" -> "T"
      [] c = "u" -> "U" [] c = "v" -> "V" [] c = "w" -> "W" [] c = "x" -> "X"
      [] c = "y" -> "Y" [] c = "z" -> "Z" [] OTHER -> c

RECURSIVE upper(_)
upper(s) ==
    IF Len(s) = 0 THEN ""
    ELSE upper_char(SubSeq(s, 1, 1)) \o upper(SubSeq(s, 2, Len(s)))

\* ---- json.dumps
digit(d) ==
    CASE d = 0 -> "0" [] d = 1 -> "1" [] d = 2 -> "2" [] d = 3 -> "3"
      [] d = 4 -> "4" [] d = 5 -> "5" [] d = 6 -> "6" [] d = 7 -> "7"
      [] d = 8 -> "8" [] d = 9 -> "9"

RECURSIVE dumps_nat(_)
dumps_nat(n) == IF n < 10 THEN digit(n) ELSE dumps_nat(n \div 10) \o digit(n % 10)

dumps_int(n) == IF n < 0 THEN "-" \o dumps_nat(-n) ELSE dumps_nat(n)

\* a string without characters that need escaping
dumps_str(s) == "\"" \o s \o "\""

RECURSIVE dumps_strs(_)
dumps_strs(l) ==
    IF Len(l) = 0 THEN ""
    ELSE IF Len(l) = 1 THEN dumps_str(l[1])
    ELSE dumps_str(l[1]) \o ", " \o dumps_strs(Tail(l))

json_dumps(v) ==
    CASE v.t = "str"  -> dumps_str(v.s)
      [] v.t = "int"  -> dumps_int(v.n)
      [] v.t = "bool" -> IF v.n = 1 THEN "true" ELSE "false"
      [] v.t = "list" -> "[" \o dumps_strs(v.l) \o "]"
      [] v.t = "none" -> "null"

\* ---- a dict as the list of its items, in insertion order
dict_keys(items) == {items[i].key : i \in DOMAIN items}

dict_get(items, key) ==
    (CHOOSE it \in Range(items) : it.key = key).value

\* _add_metadata mutated to append without clearing metadata_props first
add_metadata_no_clear(props, dict_data) ==
    props \o [i \in DOMAIN dict_data |->
                [key |-> dict_data[i].key, value |-> json_dumps(dict_data[i].value)]]

\* _add_metadata: metadata_props cleared, then one entry appended per item
_add_metadata(props, dict_data) ==
    [i \in DOMAIN dict_data |->
        [key |-> dict_data[i].key, value |-> json_dumps(dict_data[i].value)]]

\* ---- _metadata_validator

\* lines 110-114 mutated to skip the completeness check
missing_keys_unchecked(md) == {}

\* lines 110-114: the keys of METADATA missing from the record
missing_keys(md) == Range(METADATA_KEYS) \ dict_keys(md)

\* lines 118-126 for one item: the first check it fails, or "ok"
item_outcome(key, value) ==
    IF value.t = "none" \/ (is_str(value) /\ value.s = "")
    THEN Msg("empty_value", key)
    ELSE IF key \in Range(METADATA_KEYS) /\ ~ isinstance(value, TYPES(key))
    THEN Msg("wrong_type", key)
    ELSE IF is_str(value)
    THEN IF key \notin Range(METADATA_KEYS)
         THEN Msg("KeyError", key)            \* METADATA[key]
         ELSE IF Contains(value.s, METADATA(key))
         THEN Msg("template", key)
         ELSE Msg("ok", "")
    ELSE Msg("ok", "")

\* lines 117-126 mutated to run each check over all items before the next check
items_outcome_by_check(md, i) ==
    LET bad(kind) == {j \in DOMAIN md : j >= i /\ item_outcome(md[j].key, md[j].value).kind = kind}
        first(S) == CHOOSE j \in S : \A k \in S : j <= k
        at(j) == item_outcome(md[j].key, md[j].value)
    IN  IF bad("empty_value") /= {} THEN at(first(bad("empty_value")))
        ELSE IF bad("wrong_type") /= {} THEN at(first(bad("wrong_type")))
        ELSE IF bad("KeyError") \cup bad("template") /= {}
        THEN at(first(bad("KeyError") \cup bad("template")))
        ELSE Msg("ok", "")

\* lines 117-126: the loop over metadata.items(), stopped by the first failure
RECURSIVE items_outcome(_, _)
items_outcome(md, i) ==
    IF i > Len(md) THEN Msg("ok", "")
    ELSE LET o == item_outcome(md[i].key, md[i].value)
         IN  IF o.kind /= "ok" THEN o ELSE items_outcome(md, i + 1)

\* lines 128-134
class_count_outcome(md) ==
    IF "class_names" \notin dict_keys(md) THEN Msg("KeyError", "class_names")
    ELSE IF "number_of_classes" \notin dict_keys(md)
    THEN Msg("KeyError", "number_of_classes")
    ELSE LET n_class_names == Len(dict_get(md, "class_names").l)
             number_of_classes == dict_get(md, "number_of_classes").n
         IN  IF n_class_names /= number_of_classes
             THEN Msg("class_count", "class_names")
             ELSE Msg("ok", "")

\* line 139 mutated to the usual "found anywhere" test
license_hit_anywhere(lic, npl) == Find(lic, npl) >= 0

\* line 139: lic.find(npl) > 0
license_hit(lic, npl) == Find(lic, npl) > 0

\* lines 136-140
license_outcome(md) ==
    IF "model_license" \notin dict_keys(md) THEN Msg("KeyError", "model_license")
    ELSE LET lic == upper(dict_get(md, "model_license").s)
         IN  IF \E i \in DOMAIN NON_PERMISIVE_LICENSES :
                   license_hit(lic, NON_PERMISIVE_LICENSES[i])
             THEN Msg("license", "model_license")
             ELSE Msg("ok", "")

\* The whole of _metadata_validator: Msg("ok", "") when it returns, else the
\* _error it exits with or the exception it raises.
_metadata_validator(md) ==
    IF missing_keys(md) /= {} THEN Msg("missing_keys", "")
    ELSE LET o == items_outcome(md, 1)
         IN  IF o.kind /= "ok" THEN o
             ELSE LET c == class_count_outcome(md)
                  IN  IF c.kind /= "ok" THEN c ELSE license_outcome(md)

\* ---- the files of the run
ModelPaths == {"m.onnx", "m.pb", "gone.onnx", "out.onnx"}

ConfigFiles == {"cfg.json", "cfg.txt"}

\* Path.is_file on a model path: disk[p] is <<>> for no file, else <<props>>
is_file(d, p) == d[p] /= <<>>

\* ---- main(), lines 256-278
MetaMain ==
    /\ pc = "meta_main"
    /\ IF cli.make_config /= ""
       THEN \* _write_config_template, lines 194-217
            /\ template_file' =
                 << IF EndsWith(cli.make_config, ".json") THEN cli.make_config
                    ELSE cli.make_config \o ".json" >>
            /\ pc' = "exit" /\ exit_code' = 0 /\ UNCHANGED stderr
       ELSE /\ UNCHANGED template_file
            /\ IF cli.config_uri = ""
               THEN pc' = "exit" /\ exit_code' = 1 /\ stderr' = Msg("help", "")
               ELSE IF cli.config_uri \notin ConfigFiles
               THEN pc' = "exit" /\ exit_code' = 1 /\ stderr' = Msg("invalid_config_file", "")
               ELSE IF ~ EndsWith(cli.config_uri, ".json")
               THEN pc' = "exit" /\ exit_code' = 1 /\ stderr' = Msg("invalid_config_extension", "")
               ELSE pc' = "read_config" /\ UNCHANGED <<exit_code, stderr>>
    /\ UNCHANGED <<cli, data, model, disk, disk0>>
    /\ UNCHANGED diffVars

\* ---- _write_model_metadata, lines 154-177: the outcome of reading the
\* configuration, "ok" when the metadata dict is in hand
config_outcome(d, doc) ==
    IF ~ doc.is_json THEN Msg("JSONDecodeError", "")
    ELSE IF ~ doc.has_model_uri THEN Msg("no_model_uri", "")
    ELSE IF ~ is_file(d, doc.model_uri) THEN Msg("invalid_model_file", "")
    ELSE IF ~ EndsWith(doc.model_uri, ".onnx") THEN Msg("invalid_model_extension", "")
    ELSE IF doc.metadata_kind = "absent" THEN Msg("no_metadata", "")
    ELSE IF doc.metadata_kind /= "dict" THEN Msg("metadata_not_dict", "")
    ELSE Msg("ok", "")

ReadConfig ==
    /\ pc = "read_config"
    /\ LET o == config_outcome(disk, data)
       IN  /\ IF o.kind = "ok"
              THEN pc' = "validate" /\ UNCHANGED <<exit_code, stderr>>
              ELSE pc' = "exit" /\ exit_code' = 1 /\ stderr' = o
           \* lines 169-170, reached once the model file has been accepted
           /\ cli' = IF o.kind \in {"ok", "no_metadata", "metadata_not_dict"}
                        /\ cli.output_uri = ""
                     THEN [cli EXCEPT !.output_uri = data.model_uri]
                     ELSE cli
    /\ UNCHANGED <<data, template_file, model, disk, disk0>>
    /\ UNCHANGED diffVars

\* ---- line 180 mutated: the validator's verdict is ignored
ValidateIgnored ==
    /\ pc = "validate"
    /\ pc' = "load"
    /\ UNCHANGED <<exit_code, stderr>>
    /\ UNCHANGED metaVars
    /\ UNCHANGED diffVars

\* ---- line 180: _metadata_validator(metadata); _error and an uncaught
\* exception both end the process with status 1
Validate ==
    /\ pc = "validate"
    /\ LET o == _metadata_validator(data.metadata)
       IN  IF o.kind = "ok"
           THEN pc' = "load" /\ UNCHANGED <<exit_code, stderr>>
           ELSE pc' = "exit" /\ exit_code' = 1 /\ stderr' = o
    /\ UNCHANGED metaVars
    /\ UNCHANGED diffVars

\* ---- line 183: model = onnx.load(model_uri)
LoadModel ==
    /\ pc = "load"
    /\ model' = disk[data.model_uri][1]
    /\ pc' = "add"
    /\ UNCHANGED <<exit_code, stderr, cli, data, template_file, disk, disk0>>
    /\ UNCHANGED diffVars

\* ---- line 184: _add_metadata(model, metadata)
AddMetadata ==
    /\ pc = "add"
    /\ model' = _add_metadata(model, data.metadata)
    /\ pc' = "save"
    /\ UNCHANGED <<exit_code, stderr, cli, data, template_file, disk, disk0>>
    /\ UNCHANGED diffVars

\* ---- lines 186-191: save when metadata_props is not empty, else _error
SaveModel ==
    /\ pc = "save"
    /\ IF Len(model) /= 0
       THEN /\ disk' = [disk EXCEPT ![cli.output_uri] = <<model>>]
            /\ pc' = "meta_exit"
            /\ UNCHANGED <<exit_code, stderr>>
       ELSE /\ pc' = "exit" /\ exit_code' = 1 /\ stderr' = Msg("write_failed", "")
            /\ UNCHANGED disk
    /\ UNCHANGED <<cli, data, template_file, model, disk0>>
    /\ UNCHANGED diffVars

\* ---- main(), line 280: sys.exit(0)
MetaExit ==
    /\ pc = "meta_exit"
    /\ pc' = "exit"
    /\ exit_code' = 0
    /\ UNCHANGED stderr
    /\ UNCHANGED metaVars
    /\ UNCHANGED diffVars

(***************************************************************************)
(* Inputs                                                                  *)
(***************************************************************************)

\* A record that passes every check.
BaseValue(key) ==
    CASE key = "model_type" -> PyStr("Detection")
      [] key = "model_architecture" -> PyStr("SAM")
      [] key = "number_of_classes" -> PyInt(2)
      [] key = "number_of_bands" -> PyInt(3)
      [] key = "number_of_epochs" -> PyInt(100)
      [] key = "class_names" -> PyList(<<"car", "person">>)
      [] key = "vendor_name" -> PyStr("NV5")
      [] key = "model_author" -> PyStr("clees")
      [] key = "model_license" -> PyStr("Apache 2.0")
      [] key = "model_version" -> PyInt(1)
      [] key = "model_date" -> PyStr("2025-01-01")

\* A key the schema does not know.
ExtraKey == "notes"

AllKeys == METADATA_KEYS \o <<ExtraKey>>

Absent == [t |-> "absent", s |-> "", n |-> 0, l |-> <<>>]

\* What one change to the record can put under a key (Absent removes the key):
\* an empty, wrongly typed or unedited value, a boolean for an integer, and
\* under single keys a null, a text around the template, another class count
\* and license texts.
Alternatives(key) ==
    IF key = ExtraKey
    THEN {PyStr("hello"), PyInt(1), PyNone}
    ELSE CASE TYPES(key) = "str" ->
                {Absent, PyStr(""), PyStr(METADATA(key))}
                \cup (IF key = "model_type"
                      THEN {PyInt(7), PyStr("see " \o METADATA(key))} ELSE {})
                \cup (IF key = "model_date" THEN {PyNone} ELSE {})
                \cup (IF key = "model_license"
                      THEN {PyStr("MIT/GPL"), PyStr("GPL v3")} ELSE {})
           [] TYPES(key) = "int" ->
                {PyBool(TRUE), PyStr("3")}
                \cup (IF key = "number_of_classes" THEN {PyInt(3)} ELSE {})
                \cup (IF key = "model_version" THEN {Absent} ELSE {})
           [] TYPES(key) = "list" ->
                {Absent, PyStr("car"), PyList(<<"car">>)}

BaseAssignment ==
    [k \in Range(AllKeys) |-> IF k = ExtraKey THEN Absent ELSE BaseValue(k)]

\* Every single change: a key and what is put under it.
Changes ==
    UNION { { [key |-> k, value |-> v] : v \in Alternatives(k) } : k \in Range(AllKeys) }

\* The assignments at most n changes away from the base record.
RECURSIVE Assignments(_)
Assignments(n) ==
    IF n = 0 THEN {BaseAssignment}
    ELSE {BaseAssignment} \cup
         { [a EXCEPT ![c.key] = c.value] : a \in Assignments(n - 1), c \in Changes }

Reverse(s) == [i \in 1..Len(s) |-> s[Len(s) + 1 - i]]

\* The dict whose keys come in the given order.
ItemsOf(asg, order) ==
    LET present == SelectSeq(order, LAMBDA k : asg[k] /= Absent)
    IN  [i \in 1..Len(present) |-> [key |-> present[i], value |-> asg[present[i]]]]

BaseRecord == ItemsOf(BaseAssignment, AllKeys)

Records ==
    { ItemsOf(asg, order) :
        asg \in Assignments(MaxChanges), order \in {AllKeys, Reverse(AllKeys)} }

\* model_license texts put together from a few pieces
LicenseParts == {"GPL", "LGPL", "gpl", "MIT", "/", " v3", "GNU "}

RECURSIVE Joined(_)
Joined(n) ==
    IF n = 0 THEN {""}
    ELSE LET prev == Joined(n - 1)
         IN  prev \cup {s \o p : s \in prev, p \in LicenseParts}

LicenseRecords ==
    { ItemsOf([BaseAssignment EXCEPT !["model_license"] = PyStr(lic)], AllKeys) :
        lic \in Joined(MaxParts) }

\* metadata_props already in m.onnx
PriorStores ==
    { <<>>,
      << [key |-> "model_type", value |-> "\"old\""],
         [key |-> "legacy", value |-> "1"] >> }

DiskWith(prior) ==
    [p \in ModelPaths |->
        CASE p = "m.onnx" -> <<prior>>
          [] p = "m.pb" -> << <<>> >>
          [] OTHER -> <<>>]

GoodCli == [make_config : {""}, config_uri : {"cfg.json"}, output_uri : {"", "out.onnx"}]

GoodData(records) ==
    [is_json : {TRUE}, has_model_uri : {TRUE}, model_uri : {"m.onnx"},
     metadata_kind : {"dict"}, metadata : records]

\* Command lines that never reach the configuration.
BadCli ==
    [make_config : {"tpl", "tpl.json"}, config_uri : {"", "cfg.json"}, output_uri : {""}]
    \cup [make_config : {""}, config_uri : {"", "cfg.txt", "nocfg.json"},
          output_uri : {"", "out.onnx"}]

\* Configuration documents that never reach the validator.
BadData ==
    { d \in [is_json : BOOLEAN, has_model_uri : BOOLEAN,
             model_uri : {"m.onnx", "m.pb", "gone.onnx"},
             metadata_kind : {"dict", "list", "absent"},
             metadata : {BaseRecord}] :
        config_outcome(DiskWith(<<>>), d).kind /= "ok" }

DiffIdle ==
    /\ args = [a_is_file |-> FALSE, b_is_file |-> FALSE, layer_type |-> "both",
               output_uri |-> ""]
    /\ ort = [a |-> NoModel, b |-> NoModel]
    /\ bound = {}
    /\ a_layers = get_in_out_layers(NoModel)
    /\ b_layers = get_in_out_layers(NoModel)
    /\ input_status = 0
    /\ output_status = 0
    /\ REPORT = EmptyReport
    /\ report_file = NoFile
    /\ call = [a |-> <<>>, b |-> <<>>, group |-> "Inputs"]
    /\ ret = <<>>

MetaIdle ==
    /\ cli = [make_config |-> "", config_uri |-> "", output_uri |-> ""]
    /\ data = [is_json |-> FALSE, has_model_uri |-> FALSE, model_uri |-> "gone.onnx",
               metadata_kind |-> "absent", metadata |-> <<>>]
    /\ template_file = <<>>
    /\ model = <<>>
    /\ disk = DiskWith(<<>>)
    /\ disk0 = disk

MetaStart ==
    /\ pc = "meta_main"
    /\ exit_code = 0
    /\ stderr = NoMsg
    /\ template_file = <<>>
    /\ model = <<>>
    /\ disk0 = disk
    /\ DiffIdle

\* ---- the metadata tool, started on a record a few changes away from a valid one
Init ==
    /\ \/ /\ cli \in GoodCli
          /\ data \in GoodData(Records)
          /\ disk \in {DiskWith(prior) : prior \in PriorStores}
       \/ /\ cli \in BadCli
          /\ data \in GoodData({BaseRecord})
          /\ disk = DiskWith(<<>>)
       \/ /\ cli \in GoodCli
          /\ data \in BadData
          /\ disk = DiskWith(<<>>)
    /\ MetaStart

Next ==
    \/ MetaMain
    \/ ReadConfig
    \/ Validate
    \/ LoadModel
    \/ AddMetadata
    \/ SaveModel
    \/ MetaExit

Spec == Init /\ [][Next]_vars

\* ---- the metadata tool, started on a valid record with a composed license text
InitLicense ==
    /\ cli \in GoodCli
    /\ data \in GoodData(LicenseRecords)
    /\ disk \in {DiskWith(prior) : prior \in PriorStores}
    /\ MetaStart

SpecLicense == InitLicense /\ [][Next]_vars

\* ---- the diff tool
InitDiff ==
    /\ pc = "diff_setup"
    /\ exit_code = 0
    /\ stderr = NoMsg
    /\ args \in [a_is_file : BOOLEAN, b_is_file : BOOLEAN,
                 layer_type : LayerTypes, output_uri : OutputUris]
    /\ ort \in [a : IF args.a_is_file THEN Models ELSE {NoModel},
                b : IF args.b_is_file THEN Models ELSE {NoModel}]
    /\ bound = {}
    /\ a_layers = get_in_out_layers(NoModel)
    /\ b_layers = get_in_out_layers(NoModel)
    /\ input_status = 0
    /\ output_status = 0
    /\ REPORT = EmptyReport
    /\ report_file = NoFile
    /\ call = [a |-> <<>>, b |-> <<>>, group |-> "Inputs"]
    /\ ret = <<>>
    /\ MetaIdle

NextDiff ==
    \/ DiffSetup
    \/ DiffInputs
    \/ DiffOutputs
    \/ DiffReport
    \/ DiffExit

SpecDiff == InitDiff /\ [][NextDiff]_vars

\* ---- diff_models called on any two lists of descriptors
InitCall ==
    /\ pc = "call"
    /\ exit_code = 0
    /\ stderr = NoMsg
    /\ args = [a_is_file |-> TRUE, b_is_file |-> TRUE, layer_type |-> "both",
               output_uri |-> ""]
    /\ ort = [a |-> NoModel, b |-> NoModel]
    /\ bound = {"model_a", "model_b"}
    /\ a_layers = get_in_out_layers(NoModel)
    /\ b_layers = get_in_out_layers(NoModel)
    /\ input_status = 0
    /\ output_status = 0
    /\ REPORT = StartedReport
    /\ report_file = NoFile
    /\ call \in [a : DescriptorLists, b : DescriptorLists, group : Groups]
    /\ ret = <<>>
    /\ MetaIdle

NextCall == CallDiffModels

SpecCall == InitCall /\ [][NextCall]_vars

(***************************************************************************)
(* Properties of the diff tool                                             *)
(***************************************************************************)

\* The groups a layer_type selector asks for.
Requested(layer_type) ==
    CASE layer_type = "inputs" -> {"Inputs"}
      [] layer_type = "outputs" -> {"Outputs"}
      [] layer_type = "both" -> {"Inputs", "Outputs"}

\* The two models report the same layers, in the same order, for the group.
SameLayers(g) ==
    IF g = "Inputs" THEN ort.a.inputs = ort.b.inputs
    ELSE ort.a.outputs = ort.b.outputs

\* The run had two model files and a report path.
DiffRunnable == args.a_is_file /\ args.b_is_file /\ args.output_uri /= ""

\* C1: for every layer_type selector and every pair of models, the run of the
\* diff tool ends with exit code 0 if and only if every requested group is
\* compatible and with 1 otherwise, and it reaches the report write and exit,
\* also when only one group is requested.
C1_ExitCodeIffRequestedGroupsCompatible ==
    (pc = "exit" /\ DiffRunnable) =>
        /\ (exit_code = 0) <=> (\A g \in Requested(args.layer_type) : SameLayers(g))
        /\ exit_code \in {0, 1}
        /\ report_file.path = args.output_uri
        /\ report_file.content.exit_status = <<exit_code>>

\* The elements of one list that do not occur in the other.
OnlyIn(a, b) == {x \in Range(a) : x \notin Range(b)}

NoDifferences(a, b) ==
    /\ minus(a, b) = <<>> /\ minus(b, a) = <<>>
    /\ OnlyIn(a, b) = {} /\ OnlyIn(b, a) = {}

MarkedCompatible == REPORT.compatability[call.group] = <<TRUE>>

\* Every descriptor's id is its position in the list, as parse_layers numbers them.
PositionIndexed(a) == \A i \in DOMAIN a : a[i].id = i - 1

\* C2 as stated: for all lists A and B of descriptors, reordered or repeated
\* ones included, diff_models marks the group compatible if and only if both
\* one-sided difference lists are empty.
C2_CompatibleIffNoDifferences ==
    pc = "returned" => (MarkedCompatible <=> NoDifferences(call.a, call.b))

\* C2 as amended: the group is marked compatible only if both one-sided
\* difference lists are empty; and if both are empty and every descriptor's id
\* is its position in its list, the group is marked compatible.  The lists
\* hold exactly the elements of one list that do not occur in the other.
C2_CompatibleImpliesNoDifferences ==
    pc = "returned" =>
        /\ MarkedCompatible => NoDifferences(call.a, call.b)
        /\ (PositionIndexed(call.a) /\ PositionIndexed(call.b)
              /\ minus(call.a, call.b) = <<>> /\ minus(call.b, call.a) = <<>>)
           => MarkedCompatible
        /\ Range(minus(call.a, call.b)) = OnlyIn(call.a, call.b)
        /\ Range(minus(call.b, call.a)) = OnlyIn(call.b, call.a)
        /\ ret = <<IF MarkedCompatible THEN 0 ELSE 1>>

\* C2's case: two position-indexed lists that differ, found not compatible
\* with a non-empty difference.
C2_Witness ==
    /\ pc = "returned"
    /\ PositionIndexed(call.a) /\ PositionIndexed(call.b)
    /\ Len(call.a) = 2 /\ Len(call.b) = 2
    /\ call.a /= call.b
    /\ ~ MarkedCompatible
    /\ minus(call.a, call.b) /= <<>>

Count(a, x) == Cardinality({i \in DOMAIN a : a[i] = x})

SameMultiset(a, b) ==
    /\ Len(a) = Len(b)
    /\ \A x \in Range(a) \cup Range(b) : Count(a, x) = Count(b, x)

\* C9: for all lists A and B holding the same multiset of descriptors in a
\* different order, diff_models returns status 1 and marks the group not
\* compatible, while a_layers, b_layers and the concatenated difference list
\* it reports are all empty.
C9_ReorderedNotCompatibleEmptyDiff ==
    (pc = "returned" /\ call.a /= call.b /\ SameMultiset(call.a, call.b)) =>
        /\ ret = <<1>>
        /\ REPORT.compatability[call.group] = <<FALSE>>
        /\ REPORT.sections[call.group] =
             << [a_layers |-> <<>>, b_layers |-> <<>>,
                 symantic_difference |-> <<>>] >>

\* C9's case: a reordered pair has been compared.
C9_Witness ==
    /\ pc = "returned"
    /\ call.a /= call.b
    /\ SameMultiset(call.a, call.b)
    /\ ret = <<1>>
    /\ REPORT.sections[call.group] /= <<>>

(***************************************************************************)
(* Properties of the metadata tool                                         *)
(***************************************************************************)

Record == data.metadata

SchemaKeys == Range(METADATA_KEYS)

\* The command line and the configuration lead to the validator.
ReachesValidator ==
    /\ cli.make_config = ""
    /\ cli.config_uri \in ConfigFiles
    /\ EndsWith(cli.config_uri, ".json")
    /\ config_outcome(disk0, data).kind = "ok"

\* The validator has run.
Validated == ReachesValidator /\ pc \notin {"meta_main", "read_config", "validate"}

\* _add_metadata has run.
Added == ReachesValidator /\ pc \in {"save", "meta_exit", "exit"} /\ stderr = NoMsg

\* The record as committed to the output file.
Committed == disk[cli.output_uri] = <<_add_metadata(<<>>, Record)>>

\* ---- the six checks, each stated on the whole record
ValueEmpty(v) == v = PyNone \/ v = PyStr("")

ValueOfWrongType(k, v) ==
    /\ k \in SchemaKeys
    /\ \/ TYPES(k) = "str" /\ v.t /= "str"
       \/ TYPES(k) = "int" /\ v.t \notin {"int", "bool"}
       \/ TYPES(k) = "list" /\ v.t /= "list"

ValueIsTemplate(k, v) ==
    /\ k \in SchemaKeys /\ v.t = "str"
    /\ \E i \in 1..Len(v.s) :
          /\ i + Len(METADATA(k)) - 1 <= Len(v.s)
          /\ SubSeq(v.s, i, i + Len(METADATA(k)) - 1) = METADATA(k)

\* a string under a key METADATA does not have: the template lookup raises
ValueHasNoTemplate(k, v) == k \notin SchemaKeys /\ v.t = "str"

OccursAt(s, sub, p) ==
    p + Len(sub) <= Len(s) /\ SubSeq(s, p + 1, p + Len(sub)) = sub

Tokens == Range(NON_PERMISIVE_LICENSES)

\* the token's first occurrence in the text is past index 0
FirstOccurrencePastZero(s, tok) ==
    /\ \E p \in 1..Len(s) : OccursAt(s, tok, p)
    /\ ~ OccursAt(s, tok, 0)

\* the token occurs in the text somewhere past index 0
OccursPastZero(s, tok) == \E p \in 1..Len(s) : OccursAt(s, tok, p)

FailsCheck(md, c) ==
    CASE c = 1 -> \E k \in SchemaKeys : k \notin dict_keys(md)
      [] c = 2 -> \E i \in DOMAIN md : ValueEmpty(md[i].value)
      [] c = 3 -> \E i \in DOMAIN md : ValueOfWrongType(md[i].key, md[i].value)
      [] c = 4 -> \E i \in DOMAIN md : ValueIsTemplate(md[i].key, md[i].value)
      [] c = 5 -> /\ {"class_names", "number_of_classes"} \subseteq dict_keys(md)
                  /\ dict_get(md, "class_names").t = "list"
                  /\ dict_get(md, "number_of_classes").t \in {"int", "bool"}
                  /\ Len(dict_get(md, "class_names").l)
                        /= dict_get(md, "number_of_classes").n
      [] c = 6 -> /\ "model_license" \in dict_keys(md)
                  /\ dict_get(md, "model_license").t = "str"
                  /\ \E tok \in Tokens :
                        FirstOccurrencePastZero(upper(dict_get(md, "model_license").s), tok)

Checks == 1..6

FailedChecks(md) == {c \in Checks : FailsCheck(md, c)}

Lowest(S) == CHOOSE c \in S : \A d \in S : c <= d

\* the check an _error message belongs to
CheckOf(kind) ==
    CASE kind = "missing_keys" -> 1
      [] kind = "empty_value" -> 2
      [] kind = "wrong_type" -> 3
      [] kind = "template" -> 4
      [] kind = "class_count" -> 5
      [] kind = "license" -> 6

ViolationKinds ==
    {"missing_keys", "empty_value", "wrong_type", "template", "class_count", "license"}

\* C3: a record with all required keys validly set plus additional keys not
\* in the schema, of any value type (strings included), passes validation and
\* is committed; additional keys never make the run fail.
C3_AdditionalKeysNeverFail ==
    (/\ pc = "exit" /\ ReachesValidator
     /\ _metadata_validator(SelectSeq(Record, LAMBDA it : it.key \in SchemaKeys)).kind = "ok"
     /\ \A i \in DOMAIN Record :
           Record[i].key \notin SchemaKeys => ~ ValueEmpty(Record[i].value))
    => (exit_code = 0 /\ Committed)

\* C4 as stated: the one violation reported is that of the lowest-numbered
\* check the record fails, whatever the order of the keys in the record.
C4_LowestCheckReported ==
    (pc = "exit" /\ Validated /\ stderr.kind \in ViolationKinds) =>
        CheckOf(stderr.kind) = Lowest(FailedChecks(Record))

\* the first item, in the record's order, that fails check 2, 3 or 4 (0: none)
FirstBadItem(md) ==
    LET bad == {i \in DOMAIN md :
                  \/ ValueEmpty(md[i].value)
                  \/ ValueOfWrongType(md[i].key, md[i].value)
                  \/ ValueIsTemplate(md[i].key, md[i].value)
                  \/ ValueHasNoTemplate(md[i].key, md[i].value)}
    IN  IF bad = {} THEN 0 ELSE Lowest(bad)

\* what the validator ends with under the order: check 1; then item by item,
\* in the record's order, checks 2, 3 and 4 on that item; then check 5; then 6
InOrderOutcome(md) ==
    IF FailsCheck(md, 1) THEN Msg("missing_keys", "")
    ELSE IF FirstBadItem(md) /= 0
    THEN LET it == md[FirstBadItem(md)]
         IN  IF ValueEmpty(it.value) THEN Msg("empty_value", it.key)
             ELSE IF ValueOfWrongType(it.key, it.value) THEN Msg("wrong_type", it.key)
             ELSE IF ValueHasNoTemplate(it.key, it.value) THEN Msg("KeyError", it.key)
             ELSE Msg("template", it.key)
    ELSE IF FailsCheck(md, 5) THEN Msg("class_count", "class_names")
    ELSE IF FailsCheck(md, 6) THEN Msg("license", "model_license")
    ELSE NoMsg

\* C4 as amended: the validator is fail-fast in the order: (1) required-key
\* completeness; then for each key in the record's order, (2) non-emptiness,
\* (3) type conformance and (4) template-not-edited of that key before the
\* next key is looked at (a string under a key outside the schema ends the
\* run with a KeyError at (4)); then (5) and (6).  The one outcome reported is
\* the first failure in this order, so the order of the keys decides which of
\* two failing keys is reported.
C4_FirstFailureInKeyOrderReported ==
    (pc = "exit" /\ Validated) =>
        /\ stderr = InOrderOutcome(Record)
        /\ exit_code = IF stderr = NoMsg THEN 0 ELSE 1

\* C4's case: a wrongly typed key is reported although another key of the
\* record is empty.
C4_Witness ==
    /\ pc = "exit" /\ Validated
    /\ stderr.kind = "wrong_type"
    /\ FailsCheck(Record, 2)

\* C6: a boolean under an integer-typed key fails type conformance; a record
\* passes it only if every integer-typed key holds an integer that is not a
\* boolean, every string-typed key a string and class_names a list.
C6_BooleanIsNoInteger ==
    (Validated /\ stderr = NoMsg) =>
        \A i \in DOMAIN Record :
            Record[i].key \in SchemaKeys =>
                Record[i].value.t = TYPES(Record[i].key)

\* C7: the pipeline never modifies an artifact unless every validation check
\* passes: a run whose configuration is malformed or whose record fails a
\* check ends with exit code 1, nothing loaded and the files as they were.
C7_NoWriteUnlessValid ==
    /\ (disk /= disk0 \/ model /= <<>> \/ pc \in {"load", "add", "save", "meta_exit"})
          => (ReachesValidator /\ FailedChecks(Record) = {})
    /\ (pc = "exit" /\ cli.make_config = ""
          /\ (~ ReachesValidator \/ FailedChecks(Record) /= {}))
          => (exit_code = 1 /\ disk = disk0 /\ model = <<>>)
    /\ (pc = "exit" /\ cli.make_config /= "") => (disk = disk0 /\ model = <<>>)

\* C7's case: a record that fails a check, on an artifact that has metadata,
\* has ended the run.
C7_Witness ==
    /\ pc = "exit" /\ Validated
    /\ FailedChecks(Record) /= {}
    /\ disk0["m.onnx"] /= << <<>> >>
    /\ exit_code = 1 /\ disk = disk0

EntriesOf(props, k) == {i \in DOMAIN props : props[i].key = k}

\* C8: commit replaces rather than merges: after _add_metadata the store
\* holds exactly one entry per key of the record, its value the JSON encoding
\* of the record's value, and no entry of the prior content; committing the
\* same record a second time yields the same store.
C8_CommitReplaces ==
    Added =>
        /\ \A k \in dict_keys(Record) : Cardinality(EntriesOf(model, k)) = 1
        /\ \A i \in DOMAIN model :
              /\ model[i].key \in dict_keys(Record)
              /\ model[i].value = json_dumps(dict_get(Record, model[i].key))
              /\ model[i] \notin Range(disk0["m.onnx"][1])
        /\ \A i \in DOMAIN model :
              /\ dict_get(Record, model[i].key) = PyInt(100) => model[i].value = "100"
              /\ dict_get(Record, model[i].key) = PyBool(TRUE) => model[i].value = "true"
              /\ dict_get(Record, model[i].key) = PyStr("NV5") => model[i].value = "\"NV5\""
              /\ dict_get(Record, model[i].key) = PyList(<<"car", "person">>)
                    => model[i].value = "[\"car\", \"person\"]"
        /\ _add_metadata(model, Record) = model
        /\ pc \in {"meta_exit", "exit"} => disk[cli.output_uri] = <<model>>

\* C8's case: a record has been committed over an artifact that had metadata.
C8_Witness ==
    /\ Added /\ pc = "meta_exit"
    /\ disk0["m.onnx"] /= << <<>> >>
    /\ Len(model) > Len(METADATA_KEYS)

\* C10: whenever the validator returns normally the record has all the
\* required keys, so after _add_metadata there are at least that many
\* entries; the "Failed to write metadata" outcome is unreachable and every
\* run that passes validation goes on to the save and exits 0.
C10_WriteFailureUnreachable ==
    /\ stderr.kind /= "write_failed"
    /\ (Validated /\ stderr = NoMsg) =>
          /\ SchemaKeys \subseteq dict_keys(Record)
          /\ pc \in {"save", "meta_exit", "exit"} => Len(model) >= Len(METADATA_KEYS)
          /\ pc \in {"meta_exit", "exit"} => disk[cli.output_uri] = <<model>>
          /\ pc = "exit" => exit_code = 0
    /\ (ReachesValidator /\ pc = "exit" /\ _metadata_validator(Record).kind = "ok")
          => (exit_code = 0 /\ stderr = NoMsg /\ disk[cli.output_uri] = <<model>>)
    /\ pc \in {"load", "add", "save", "meta_exit"} => ENABLED Next

\* C10's case: a run that passed validation has saved and exited.
C10_Witness ==
    /\ pc = "exit" /\ Validated /\ stderr = NoMsg
    /\ exit_code = 0
    /\ Len(model) >= Len(METADATA_KEYS)
    /\ disk[cli.output_uri] = <<model>>

\* the license text, uppercased, of a record the license gate looks at
LicenseText == upper(dict_get(Record, "model_license").s)

\* The validator got as far as the license gate.
AtLicenseGate ==
    /\ Validated
    /\ stderr.kind \in {"license", ""}

RejectedAtGate == pc = "exit" /\ stderr.kind = "license" /\ exit_code = 1

\* C5 as stated: the record is rejected at the license gate if and only if the
\* uppercased license contains a deny-listed token starting at some position
\* past zero, whichever occurrence that is.
C5_RejectedIffTokenPastZero ==
    AtLicenseGate =>
        (RejectedAtGate <=> \E tok \in Tokens : OccursPastZero(LicenseText, tok))

\* C5 as amended: the record is rejected at the license gate if and only if,
\* for some deny-listed token, the first occurrence of that token in the
\* uppercased license starts past position zero; so "MIT/GPL" is rejected,
\* "GPL v3" passes, and a text that starts with a token and repeats it later
\* passes unless some other token occurs first past position zero.
C5_RejectedIffFirstOccurrencePastZero ==
    AtLicenseGate =>
        (RejectedAtGate <=> \E tok \in Tokens : FirstOccurrencePastZero(LicenseText, tok))

\* C5's case: a license that starts with a deny-listed token and holds it
\* again later has passed the gate.
C5_Witness ==
    /\ AtLicenseGate /\ pc = "exit" /\ exit_code = 0
    /\ \E tok \in Tokens :
          OccursAt(LicenseText, tok, 0) /\ OccursPastZero(LicenseText, tok)

=============================================================================
